---- MODULE Spec2Model ----
(***************************************************************************)
(* Grocerz (src/app.py): the inventory loader, the product search and the  *)
(* session-backed shopping list, as a state machine.                       *)
(*                                                                         *)
(* Text is a sequence of one-character strings, so that strip(), lower(),  *)
(* int() and str.contains() are computed character by character.           *)
(***************************************************************************)
EXTENDS Integers, Sequences, FiniteSets, TLC

(***************************************************************************)
(* Bounds of the model.                                                    *)
(***************************************************************************)
\* the handlers are explored while the session holds at most this many
\* undelivered flash messages
MaxFlashes == 1
\* Add and Bulk Update are explored while the quantities of the list sum to
\* at most this
MaxTotal == 6

(***************************************************************************)
(* Text literals used by the inputs.                                       *)
(***************************************************************************)
A1 == <<"A", "1">>
B2 == <<"B", "2">>
ZZZ == <<"Z", "Z", "Z">>
PadA1 == <<" ", "A", "1">>
Milk == <<"M", "i", "l", "k">>
Bread == <<"B", "r", "e", "a", "d">>
Curd == <<"C", "u", "r", "d">>
Amul == <<"A", "m", "u", "l">>
Aisle1 == <<"A", "i", "s", "l", "e", " ", "1">>
NanText == <<"n", "a", "n">>
NotInInventory == <<"(", "n", "o", "t", " ", "i", "n", " ", "i", "n", "v", "e", "n", "t", "o", "r", "y", ")">>
QtyPrefix == <<"q", "t", "y", "-">>

(***************************************************************************)
(* Python string primitives.                                               *)
(***************************************************************************)
IsSpace(c) == c = " "

RECURSIVE LStrip(_)
LStrip(s) == IF s # << >> /\ IsSpace(Head(s)) THEN LStrip(Tail(s)) ELSE s

RECURSIVE RStrip(_)
RStrip(s) ==
  IF s # << >> /\ IsSpace(s[Len(s)]) THEN RStrip(SubSeq(s, 1, Len(s) - 1)) ELSE s

\* str.strip()
Strip(s) == RStrip(LStrip(s))

LowerChar(c) ==
  CASE c = "A" -> "a" [] c = "B" -> "b" [] c = "C" -> "c"
    [] c = "M" -> "m" [] c = "Z" -> "z" [] OTHER -> c

\* str.lower()
Lower(s) == [i \in 1..Len(s) |-> LowerChar(s[i])]

\* str.startswith(p)
StartsWith(s, p) == Len(s) >= Len(p) /\ SubSeq(s, 1, Len(p)) = p

Digits == {"0", "1", "2", "3", "4", "5", "6", "7", "8", "9"}
DigitVal(c) ==
  CASE c = "0" -> 0 [] c = "1" -> 1 [] c = "2" -> 2 [] c = "3" -> 3
    [] c = "4" -> 4 [] c = "5" -> 5 [] c = "6" -> 6 [] c = "7" -> 7
    [] c = "8" -> 8 [] c = "9" -> 9

RECURSIVE DecVal(_)
DecVal(ds) ==
  IF ds = << >> THEN 0
  ELSE 10 * DecVal(SubSeq(ds, 1, Len(ds) - 1)) + DigitVal(ds[Len(ds)])

\* a signed decimal literal with no surrounding whitespace
SignedLiteral(t) ==
  LET signed == t # << >> /\ Head(t) \in {"+", "-"}
      body == IF signed THEN Tail(t) ELSE t
      ok == body # << >> /\ \A i \in 1..Len(body) : body[i] \in Digits
  IN [ok |-> ok,
      val |-> IF ~ok THEN 0
              ELSE IF signed /\ Head(t) = "-" THEN 0 - DecVal(body)
              ELSE DecVal(body)]

\* int(s): ok is FALSE where Python raises ValueError.  int() itself accepts
\* surrounding whitespace.
PyInt(s) == SignedLiteral(Strip(s))

\* the literal p occurs in s (Python's `p in s`)
Contains(s, p) ==
  \E i \in 0..(Len(s) - Len(p)) : \A j \in 1..Len(p) : s[i + j] = p[j]

(***************************************************************************)
(* pandas Series.str.contains(pat): pat is a REGULAR EXPRESSION (regex=True*)
(* is the default).  Of the regex syntax the alphabet of the queries holds *)
(* "." (any character) and "(" (opens a group; with no ")" in the alphabet *)
(* every pattern holding it fails to compile: re.error).                   *)
(***************************************************************************)
ReCompiles(pat) == \A j \in 1..Len(pat) : pat[j] # "("

ReSearch(s, pat) ==
  \E i \in 0..(Len(s) - Len(pat)) :
     \A j \in 1..Len(pat) : pat[j] = "." \/ s[i + j] = pat[j]

(***************************************************************************)
(* The spreadsheet and load_products.                                      *)
(* A source table has a set of columns and a sequence of rows; a cell is   *)
(* text, a number (held in tenths, so 27 is 2.7) or empty (read_excel      *)
(* gives NaN for an empty cell).                                           *)
(***************************************************************************)
Txt(s) == [k |-> "text", s |-> s, tenths |-> 0]
Num(t) == [k |-> "num", s |-> << >>, tenths |-> t]
Blank == [k |-> "nan", s |-> << >>, tenths |-> 0]

text_cols == <<"sku", "name", "brand", "size", "color", "ingredient_tags", "aisle">>
TextCols == {text_cols[i] : i \in 1..Len(text_cols)}

\* Series.astype(str) on a column of text and empty cells: str(NaN) is "nan"
AsTypeStr(cell) ==
  CASE cell.k = "text" -> [isna |-> FALSE, s |-> cell.s]
    [] cell.k = "nan" -> [isna |-> FALSE, s |-> NanText]

\* Series.fillna(""): replaces the values that are still missing
FillNaText(v) == IF v.isna THEN << >> ELSE v.s

\* lines 29-31 for one cell: df[c].astype(str).fillna("").str.strip()
CleanText(cell) == Strip(FillNaText(AsTypeStr(cell)))

NaN == [isnan |-> TRUE, tenths |-> 0]
\* pd.to_numeric(errors="coerce") on one cell
ToNumeric(cell) ==
  CASE cell.k = "num" -> [isnan |-> FALSE, tenths |-> cell.tenths]
    [] cell.k = "nan" -> NaN
    [] cell.k = "text" ->
         IF SignedLiteral(cell.s).ok
         THEN [isnan |-> FALSE, tenths |-> 10 * SignedLiteral(cell.s).val]
         ELSE NaN

\* Series.fillna(d)
FillNaNum(v, d) == IF v.isnan THEN d ELSE v.tenths

\* Series.astype(int): truncation toward zero
AsTypeInt(tenths) == IF tenths >= 0 THEN tenths \div 10 ELSE 0 - ((0 - tenths) \div 10)

\* the cell of column c in a source row; a column the source lacks is first
\* created with the default d (lines 29-30, 34-35, 39-40)
CellOf(table, row, c, d) == IF c \in table.cols THEN row[c] ELSE d

LoadRow(table, row) ==
  [sku |-> CleanText(CellOf(table, row, "sku", Txt(<< >>))),
   name |-> CleanText(CellOf(table, row, "name", Txt(<< >>))),
   brand |-> CleanText(CellOf(table, row, "brand", Txt(<< >>))),
   size |-> CleanText(CellOf(table, row, "size", Txt(<< >>))),
   color |-> CleanText(CellOf(table, row, "color", Txt(<< >>))),
   ingredient_tags |-> CleanText(CellOf(table, row, "ingredient_tags", Txt(<< >>))),
   aisle |-> CleanText(CellOf(table, row, "aisle", Txt(<< >>))),
   price |-> FillNaNum(ToNumeric(CellOf(table, row, "price", Num(0))), 0),
   stock_qty |-> AsTypeInt(FillNaNum(ToNumeric(CellOf(table, row, "stock_qty", Num(0))), 0))]

\* load_products(): the normalised table, a sequence of product rows
load_products(table) == [i \in 1..Len(table.rows) |-> LoadRow(table, table.rows[i])]

(***************************************************************************)
(* The state of data/inventory.xlsx: absent, or one of the source tables.  *)
(***************************************************************************)
Missing == [exists |-> FALSE, cols |-> {}, rows |-> << >>]

\* the inventory of the example of the search property: two columns only
TableExample ==
  [exists |-> TRUE, cols |-> {"sku", "name"},
   rows |-> << [sku |-> Txt(A1), name |-> Txt(Milk)],
               [sku |-> Txt(B2), name |-> Txt(Bread)] >>]

\* every column, with padded, empty, garbled and fractional cells and a
\* duplicated sku
TableMessy ==
  [exists |-> TRUE, cols |-> TextCols \cup {"price", "stock_qty"},
   rows |-> << [sku |-> Txt(<<" ", "A", "1", " ">>), name |-> Txt(Milk), brand |-> Txt(Amul),
                size |-> Blank, color |-> Txt(<< >>), ingredient_tags |-> Blank,
                aisle |-> Txt(Aisle1), price |-> Num(25), stock_qty |-> Num(27)],
               [sku |-> Txt(A1), name |-> Txt(Curd), brand |-> Blank,
                size |-> Txt(<<"1">>), color |-> Blank, ingredient_tags |-> Txt(<< >>),
                aisle |-> Blank, price |-> Txt(<<"x">>), stock_qty |-> Txt(<<"x">>)],
               [sku |-> Txt(B2), name |-> Blank, brand |-> Txt(<<"A", ".", "B">>),
                size |-> Blank, color |-> Blank, ingredient_tags |-> Blank,
                aisle |-> Txt(<< >>), price |-> Blank, stock_qty |-> Num(0 - 15)] >>]

Tables == {TableExample, TableMessy}
Files == Tables \cup {Missing}

(***************************************************************************)
(* Python dict primitives; a dict is a function on its keys.               *)
(***************************************************************************)
EmptyDict == [k \in {} |-> 0]
DictGet(d, k, default) == IF k \in DOMAIN d THEN d[k] ELSE default
DictSet(d, k, v) == [x \in (DOMAIN d) \cup {k} |-> IF x = k THEN v ELSE d[x]]
DictDel(d, k) == [x \in (DOMAIN d) \ {k} |-> d[x]]

RECURSIVE SumValues(_)
\* sum(d.values())
SumValues(d) ==
  IF DOMAIN d = {} THEN 0
  ELSE LET k == CHOOSE x \in DOMAIN d : TRUE IN d[k] + SumValues(DictDel(d, k))

(***************************************************************************)
(* The session: a dict that holds "shopping_list" (sku -> qty) once a      *)
(* handler has created it and "_flashes" while messages are undelivered.   *)
(***************************************************************************)
Cart(s) == DictGet(s, "shopping_list", EmptyDict)
Flashes(s) == DictGet(s, "_flashes", << >>)

\* flash(message): appended to the session's queue
flash(s, message) == DictSet(s, "_flashes", Append(Flashes(s), message))

\* session.setdefault("shopping_list", {})   (get_shopping_list, line 59)
SetDefaultList(s) ==
  IF "shopping_list" \in DOMAIN s THEN s ELSE DictSet(s, "shopping_list", EmptyDict)

\* get_flashed_messages() in the templates of the rendered pages: the queue
\* is popped and shown (a flash message is delivered once, on the next
\* rendered page)
get_flashed_messages(s) == DictDel(s, "_flashes")

Msg(text, qty, sku) == [text |-> text, qty |-> qty, sku |-> sku]
MsgNotFound == Msg("Product not found.", 0, << >>)
MsgAdded(qty, sku) == Msg("Added {qty} x {sku} to your shopping list.", qty, sku)
MsgUpdated == Msg("Shopping list updated.", 0, << >>)
MsgRemoved(sku) == Msg("Removed {sku} from your shopping list.", 0, sku)
MsgCleared == Msg("Shopping list cleared.", 0, << >>)
MsgSelectFile == Msg("Please select an Excel file to upload.", 0, << >>)
MsgUploaded == Msg("Inventory uploaded. Visit /products to see the items.", 0, << >>)

(***************************************************************************)
(* A form or query field: present with a value, or absent.                 *)
(***************************************************************************)
Field(v) == [present |-> TRUE, v |-> v]
Absent == [present |-> FALSE, v |-> << >>]
\* request.form.get(name, default) / request.args.get(name, default)
FormGet(f, default) == IF f.present THEN f.v ELSE default

(***************************************************************************)
(* stock_label                                                             *)
(***************************************************************************)
stock_label(qty) == IF qty > 0 THEN "In stock" ELSE "Out of stock"

(***************************************************************************)
(* GET /products                                                           *)
(***************************************************************************)
\* lines 98-101: the rows kept by the search box
QueryMask(row, q) ==
  q = << >> \/ ReSearch(Lower(row.name), q) \/ ReSearch(Lower(row.sku), q)

\* lines 104-105: the rows kept by the brand filter
BrandMask(row, brand_q) == brand_q = << >> \/ ReSearch(Lower(row.brand), brand_q)

WithAvailability(row) ==
  [sku |-> row.sku, name |-> row.name, brand |-> row.brand, size |-> row.size,
   color |-> row.color, ingredient_tags |-> row.ingredient_tags, aisle |-> row.aisle,
   price |-> row.price, stock_qty |-> row.stock_qty,
   availability |-> stock_label(row.stock_qty)]

\* the handler: ok is FALSE where it raises (no file, or a pattern that does
\* not compile) and the request ends in an error response
products(file, s, qField, brandField) ==
  LET q == Lower(Strip(FormGet(qField, << >>)))
      brand_q == Lower(Strip(FormGet(brandField, << >>)))
      df == load_products(file)
      Keep(row) == QueryMask(row, q) /\ BrandMask(row, brand_q)
      kept == SelectSeq(df, Keep)
  IN IF ~file.exists \/ (q # << >> /\ ~ReCompiles(q))
                     \/ (brand_q # << >> /\ ~ReCompiles(brand_q))
     THEN [ok |-> FALSE, session |-> s, products |-> << >>]
     ELSE [ok |-> TRUE, session |-> get_flashed_messages(s),
           products |-> [i \in 1..Len(kept) |-> WithAvailability(kept[i])]]

(***************************************************************************)
(* POST /add_to_list                                                       *)
(***************************************************************************)
\* lines 122-125: int(qty_raw), 1 when it raises
ParseQty(qty_raw) == IF PyInt(qty_raw).ok THEN PyInt(qty_raw).val ELSE 1

\* (a handler without the clamp)
ClampQtyMissing(qty) == qty

\* lines 126-127
ClampQty(qty) == IF qty < 1 THEN 1 ELSE qty

\* df[df["sku"] == sku] is not empty
SkuFound(df, sku) == \E i \in 1..Len(df) : df[i].sku = sku

\* (a handler that skips the validation)
SkuUnknownNever(df, sku) == FALSE

\* line 130: df[df["sku"] == sku].empty
SkuUnknown(df, sku) == ~SkuFound(df, sku)

\* (an assignment in place of the increment: cart[sku] = qty)
AddQtyOverwrite(cart, sku, qty) == DictSet(cart, sku, qty)

\* line 135: cart[sku] = cart.get(sku, 0) + qty
AddQty(cart, sku, qty) == DictSet(cart, sku, DictGet(cart, sku, 0) + qty)

\* outcome: "error" (the load raised), "not_found" or "added"
add_to_list(file, s, skuField, qtyField) ==
  LET sku == Strip(FormGet(skuField, << >>))
      qty_raw == Strip(FormGet(qtyField, <<"1">>))
      qty == ClampQty(ParseQty(qty_raw))
      s1 == SetDefaultList(s)
      cart == AddQty(Cart(s1), sku, qty)
  IN IF ~file.exists THEN [outcome |-> "error", session |-> s]
     ELSE IF SkuUnknown(load_products(file), sku)
     THEN [outcome |-> "not_found", session |-> flash(s, MsgNotFound)]
     ELSE [outcome |-> "added",
           session |-> flash(DictSet(s1, "shopping_list", cart), MsgAdded(qty, sku))]

(***************************************************************************)
(* GET /shopping-list                                                      *)
(***************************************************************************)
\* row.iloc[0]: the first row of the table with this sku
FirstRow(df, sku) == df[CHOOSE i \in 1..Len(df) :
                          df[i].sku = sku /\ \A j \in 1..(i - 1) : df[j].sku # sku]

\* lines 149-160: the item shown for one entry
Enrich(df, sku, qty) ==
  IF ~SkuFound(df, sku)
  THEN [sku |-> sku, name |-> NotInInventory, qty |-> qty, aisle |-> << >>]
  ELSE [sku |-> sku, name |-> FirstRow(df, sku).name, qty |-> qty,
        aisle |-> FirstRow(df, sku).aisle]

\* (the number of entries in place of the sum: len(cart))
TotalItemsCount(cart) == Cardinality(DOMAIN cart)

\* line 161
TotalItems(cart) == IF DOMAIN cart # {} THEN SumValues(cart) ELSE 0

\* the inventory is loaded only for a non-empty list (line 146)
shopping_list(file, s) ==
  LET s1 == SetDefaultList(s)
      cart == Cart(s1)
      df == load_products(file)
  IN IF DOMAIN cart # {} /\ ~file.exists
     THEN [ok |-> FALSE, session |-> s1, items |-> {}, total_items |-> 0]
     ELSE [ok |-> TRUE, session |-> get_flashed_messages(s1),
           items |-> {Enrich(df, sku, cart[sku]) : sku \in DOMAIN cart},
           total_items |-> TotalItems(cart)]

(***************************************************************************)
(* POST /update_shopping_list                                              *)
(* The form is the sequence of (key, value) pairs request.form.items()     *)
(* yields: one value per field name.                                       *)
(***************************************************************************)
\* lines 174-177: int(val), 0 when it raises
ParseUpdateQty(val) == IF PyInt(val).ok THEN PyInt(val).val ELSE 0

\* key.split("qty-", 1)[1] for a key that starts with "qty-"
SkuOfKey(key) == SubSeq(key, Len(QtyPrefix) + 1, Len(key))

RECURSIVE Updated(_)
\* lines 170-179: the dict built from the form, in iteration order
Updated(form) ==
  IF form = << >> THEN EmptyDict
  ELSE LET n == Len(form)
           rest == Updated(SubSeq(form, 1, n - 1))
           key == form[n][1]
           q == ParseUpdateQty(form[n][2])
       IN IF StartsWith(key, QtyPrefix) /\ q > 0
          THEN DictSet(rest, SkuOfKey(key), q) ELSE rest

\* (a merge in place of the replacement: cart.update(updated))
StoreMerged(s, updated) ==
  DictSet(s, "shopping_list",
          [k \in (DOMAIN Cart(s)) \cup (DOMAIN updated) |->
             IF k \in DOMAIN updated THEN updated[k] ELSE Cart(s)[k]])

\* line 181: session["shopping_list"] = updated
StoreUpdated(s, updated) == DictSet(s, "shopping_list", updated)

update_shopping_list(s, form) ==
  [session |-> flash(StoreUpdated(SetDefaultList(s), Updated(form)), MsgUpdated)]

(***************************************************************************)
(* POST /remove_from_list                                                  *)
(***************************************************************************)
\* (cart.clear() in place of the deletion of one key)
DelEntryAll(cart, sku) == EmptyDict

\* line 191: del cart[sku]
DelEntry(cart, sku) == DictDel(cart, sku)

remove_from_list(s, skuField) ==
  LET sku == Strip(FormGet(skuField, << >>))
      s1 == SetDefaultList(s)
  IN IF sku \in DOMAIN Cart(s1)
     THEN [removed |-> TRUE,
           session |-> flash(DictSet(s1, "shopping_list", DelEntry(Cart(s1), sku)),
                             MsgRemoved(sku))]
     ELSE [removed |-> FALSE, session |-> s1]

(***************************************************************************)
(* POST /clear_list                                                        *)
(***************************************************************************)
\* (a handler that only flashes)
ClearedListKept(s) == s

\* line 199: session["shopping_list"] = {}
ClearedList(s) == DictSet(s, "shopping_list", EmptyDict)

clear_list(s) == [session |-> flash(ClearedList(s), MsgCleared)]

(***************************************************************************)
(* POST /admin/upload                                                      *)
(***************************************************************************)
upload(file, s, upl) ==
  IF ~upl.exists THEN [file |-> file, session |-> flash(s, MsgSelectFile)]
  ELSE [file |-> upl, session |-> flash(s, MsgUploaded)]

(***************************************************************************)
(* The inputs of the requests.                                             *)
(***************************************************************************)
SkuFields == {Field(A1), Field(B2), Field(PadA1), Field(ZZZ), Absent}
QtyFields ==
  {Field(<<"2">>), Field(<<"3">>), Field(<<"x">>), Field(<<"0">>), Field(<<"-", "1">>),
   Absent}
QueryFields ==
  {Absent, Field(<<"m", "i", "l", "k">>), Field(<<" ", "M", "I", "L", "K">>),
   Field(<<"z">>), Field(<<".">>), Field(<<"(">>)}
BrandFields == {Absent, Field(<<"m", ".", "l">>)}

QtyKey(sku) == QtyPrefix \o sku
UpdateForms ==
  { << >>,
    << <<QtyKey(A1), <<"2">> >> >>,
    << <<QtyKey(A1), <<"5">> >>, <<QtyKey(B2), <<"1">> >> >>,
    << <<QtyKey(A1), <<"0">> >>, <<QtyKey(B2), <<"x">> >> >>,
    << <<QtyKey(B2), <<"-", "1">> >>, <<QtyKey(A1), <<" ", "3">> >> >>,
    << <<QtyKey(PadA1), <<"1">> >>, <<<<"n", "o", "t", "e">>, <<"4">> >> >>,
    << <<QtyKey(ZZZ), <<"2">> >>, <<QtyKey(<< >>), <<"1">> >>, <<A1, <<"3">> >> >> }

(***************************************************************************)
(* State.                                                                  *)
(*   file     data/inventory.xlsx                                          *)
(*   session  the session of the one browser                               *)
(*   resp     the last request served and what it returned                 *)
(*   reqs     the requests in flight (used by SpecRace only)               *)
(***************************************************************************)
VARIABLES file, session, resp, reqs

vars == <<file, session, resp, reqs>>

Idle == [pc |-> "idle"]

Init ==
  /\ file \in Files
  /\ session = EmptyDict
  /\ resp = [op |-> "none"]
  /\ reqs = [r \in {1, 2} |-> Idle]

\* the part of the state space explored: a request that may flash is served
\* while the queue has room, and a list is stored while its total is small
QueueHasRoom == Len(Flashes(session)) < MaxFlashes
WithinBounds(s) == SumValues(Cart(s)) <= MaxTotal

Products(qField, brandField) ==
  \E out \in {products(file, session, qField, brandField)} :
     /\ session' = out.session
     /\ resp' = [op |-> "products", q |-> qField, brand |-> brandField,
                 ok |-> out.ok, products |-> out.products]
     /\ UNCHANGED <<file, reqs>>

Add(skuField, qtyField) ==
  /\ QueueHasRoom
  /\ \E out \in {add_to_list(file, session, skuField, qtyField)} :
     /\ WithinBounds(out.session)
     /\ session' = out.session
     /\ resp' = [op |-> "add", before |-> session, sku |-> skuField, qty |-> qtyField,
                 outcome |-> out.outcome]
     /\ UNCHANGED <<file, reqs>>

View ==
  \E out \in {shopping_list(file, session)} :
     /\ session' = out.session
     /\ resp' = [op |-> "view", ok |-> out.ok, items |-> out.items,
                 total_items |-> out.total_items]
     /\ UNCHANGED <<file, reqs>>

BulkUpdate(form) ==
  /\ QueueHasRoom
  /\ \E out \in {update_shopping_list(session, form)} :
     /\ WithinBounds(out.session)
     /\ session' = out.session
     /\ resp' = [op |-> "update", before |-> session, form |-> form]
     /\ UNCHANGED <<file, reqs>>

Remove(skuField) ==
  /\ QueueHasRoom
  /\ \E out \in {remove_from_list(session, skuField)} :
     /\ session' = out.session
     /\ resp' = [op |-> "remove", before |-> session, sku |-> skuField, removed |-> out.removed]
     /\ UNCHANGED <<file, reqs>>

Clear ==
  /\ QueueHasRoom
  /\ \E out \in {clear_list(session)} :
     /\ session' = out.session
     /\ resp' = [op |-> "clear", before |-> session]
     /\ UNCHANGED <<file, reqs>>

Upload(upl) ==
  /\ QueueHasRoom
  /\ \E out \in {upload(file, session, upl)} :
     /\ file' = out.file
     /\ session' = out.session
     /\ resp' = [op |-> "upload", saved |-> upl.exists]
     /\ UNCHANGED reqs

Next ==
  \/ \E q \in QueryFields, b \in BrandFields : Products(q, b)
  \/ \E sku \in SkuFields, qty \in QtyFields : Add(sku, qty)
  \/ View
  \/ \E form \in UpdateForms : BulkUpdate(form)
  \/ \E sku \in SkuFields : Remove(sku)
  \/ Clear
  \/ \E upl \in Files : Upload(upl)

Spec == Init /\ [][Next]_vars

(***************************************************************************)
(* Two requests of one session in flight at once.                          *)
(*                                                                         *)
(* The session travels with the request: the handler works on the session  *)
(* as the browser held it when the request was sent (get_shopping_list     *)
(* returns that mapping), and the whole session it leaves behind replaces  *)
(* the browser's when the response arrives (line 136 writes the mapping    *)
(* back); a handler that changed nothing sends no session back.  Nothing   *)
(* orders two requests of the same session.                                *)
(***************************************************************************)
Request(op, skuField, qtyField, form) ==
  [op |-> op, sku |-> skuField, qty |-> qtyField, form |-> form]

RaceRequests ==
  {Request("add", Field(A1), Field(<<"2">>), << >>),
   Request("add", Field(A1), Field(<<"3">>), << >>),
   Request("add", Field(B2), Absent, << >>),
   Request("add", Field(ZZZ), Field(<<"2">>), << >>),
   Request("update", Absent, Absent, << <<QtyKey(B2), <<"2">> >> >>),
   Request("remove", Field(A1), Absent, << >>),
   Request("clear", Absent, Absent, << >>)}

\* the session a mutating handler leaves, given the session it started from
Serve(f, s, req) ==
  CASE req.op = "add" -> add_to_list(f, s, req.sku, req.qty).session
    [] req.op = "update" -> update_shopping_list(s, req.form).session
    [] req.op = "remove" -> remove_from_list(s, req.sku).session
    [] req.op = "clear" -> clear_list(s).session

\* (a store that merges the list it is given into the list it holds)
SaveSessionMerged(stored, opened, left) ==
  IF left = opened THEN stored
  ELSE DictSet(left, "shopping_list",
               [k \in (DOMAIN Cart(stored)) \cup (DOMAIN Cart(left)) |->
                  IF k \in DOMAIN Cart(left) THEN Cart(left)[k] ELSE Cart(stored)[k]])

\* the session stored once a response arrives: the one the handler left, if
\* the handler changed the one it opened
SaveSession(stored, opened, left) == IF left = opened THEN stored ELSE left

Other(r) == 3 - r

\* the browser sends a request, with the session it holds
Begin(r, req) ==
  /\ reqs[r].pc = "idle"
  /\ WithinBounds(Serve(file, session, req))
  /\ reqs' = [q \in {1, 2} |->
                IF q = r
                THEN [pc |-> "running", req |-> req, opened |-> session,
                      overlapped |-> reqs[Other(r)].pc = "running", rank |-> 0]
                ELSE IF reqs[q].pc = "running"
                THEN [reqs[q] EXCEPT !.overlapped = TRUE]
                ELSE reqs[q]]
  /\ UNCHANGED <<file, session, resp>>

\* the handler has run and its response arrives
Finish(r) ==
  /\ reqs[r].pc = "running"
  /\ session' = SaveSession(session, reqs[r].opened,
                            Serve(file, reqs[r].opened, reqs[r].req))
  /\ reqs' = [reqs EXCEPT ![r].pc = "done",
                          ![r].rank = IF reqs[Other(r)].pc = "done" THEN 2 ELSE 1]
  /\ UNCHANGED <<file, resp>>

\* both responses are in: the browser follows the redirect and the page
\* shows the list and the messages
Render ==
  /\ \A r \in {1, 2} : reqs[r].pc = "done"
  /\ \E out \in {shopping_list(file, session)} :
       /\ session' = out.session
       /\ resp' = [op |-> "view", ok |-> out.ok, items |-> out.items,
                   total_items |-> out.total_items]
  /\ reqs' = [r \in {1, 2} |-> Idle]
  /\ UNCHANGED file

InitRace ==
  /\ file = TableExample
  /\ session = EmptyDict
  /\ resp = [op |-> "none"]
  /\ reqs = [r \in {1, 2} |-> Idle]

NextRace ==
  \/ \E r \in {1, 2}, req \in RaceRequests : Begin(r, req)
  \/ \E r \in {1, 2} : Finish(r)
  \/ Render

SpecRace == InitRace /\ [][NextRace]_vars

(***************************************************************************)
(* Notions the properties are stated in.                                   *)
(***************************************************************************)
\* sku is the sku of a row of the table load_products returns for the file
InLoadedInventory(f, sku) ==
  f.exists /\ \E i \in 1..Len(load_products(f)) : load_products(f)[i].sku = sku

\* the quantity Add is to use for a raw quantity
ExpectedAddQty(qty_raw) ==
  IF ~PyInt(qty_raw).ok \/ PyInt(qty_raw).val < 1 THEN 1 ELSE PyInt(qty_raw).val

\* the quantity Bulk Update is to read from a raw value
ExpectedUpdateQty(val) == IF PyInt(val).ok THEN PyInt(val).val ELSE 0

\* the store d with the entry of k set to v, all other entries as they are
WithEntry(d, k, v) == [x \in (DOMAIN d) \cup {k} |-> IF x = k THEN v ELSE d[x]]
\* the store d without the entry of k, all other entries as they are
WithoutEntry(d, k) == [x \in (DOMAIN d) \ {k} |-> d[x]]

HasStore(s) == "shopping_list" \in DOMAIN s

(***************************************************************************)
(* C1  Add accumulates: Add(sku, qty_raw) with a sku of the loaded         *)
(* inventory sets store[sku] to its previous value (0 when absent) plus q, *)
(* q being int(qty_raw), or 1 when that fails or is below 1; the other     *)
(* entries are unchanged and the "Added" message is queued.                *)
(***************************************************************************)
AddAccumulates ==
  (resp.op = "add" /\ resp.sku.present /\ resp.qty.present
     /\ InLoadedInventory(file, resp.sku.v)) =>
    LET sku == resp.sku.v
        q == ExpectedAddQty(resp.qty.v)
        old == Cart(resp.before)
        prev == IF sku \in DOMAIN old THEN old[sku] ELSE 0
    IN /\ resp.outcome = "added"
       /\ Cart(session) = WithEntry(old, sku, prev + q)
       /\ Flashes(session) = Append(Flashes(resp.before), MsgAdded(q, sku))

\* Add("A1", "3") has acted on a store that held A1: 2, giving A1: 5
AddAccumulatesWitness ==
  /\ resp.op = "add" /\ resp.sku = Field(A1) /\ resp.qty = Field(<<"3">>)
  /\ Cart(resp.before) = (A1 :> 2)
  /\ Cart(session) = (A1 :> 5)

(***************************************************************************)
(* C2, as claimed: Add with a sku that is not in the loaded inventory      *)
(* leaves the mapping as it was, queues the not-found message and no       *)
(* "Added" message.                                                        *)
(***************************************************************************)
AddRejectsUnknownAsClaimed ==
  (resp.op = "add" /\ resp.sku.present /\ file.exists
     /\ ~InLoadedInventory(file, resp.sku.v)) =>
    /\ resp.outcome = "not_found"
    /\ Cart(session) = Cart(resp.before)
    /\ HasStore(session) = HasStore(resp.before)
    /\ Flashes(session) = Append(Flashes(resp.before), MsgNotFound)

(***************************************************************************)
(* C2, amended: Add with a sku whose whitespace-trimmed form (the empty    *)
(* text for an absent field) is not in the loaded inventory leaves the     *)
(* mapping as it was, queues the not-found message and no "Added" message. *)
(***************************************************************************)
AddRejectsUnknown ==
  (resp.op = "add" /\ file.exists
     /\ ~InLoadedInventory(file, Strip(FormGet(resp.sku, << >>)))) =>
    /\ resp.outcome = "not_found"
    /\ Cart(session) = Cart(resp.before)
    /\ HasStore(session) = HasStore(resp.before)
    /\ Flashes(session) = Append(Flashes(resp.before), MsgNotFound)

\* Add("ZZZ", ..) has acted on a non-empty store with an inventory lacking ZZZ
AddRejectsUnknownWitness ==
  /\ resp.op = "add" /\ resp.sku = Field(ZZZ) /\ file = TableExample
  /\ DOMAIN Cart(resp.before) # {}
  /\ resp.outcome = "not_found"

(***************************************************************************)
(* C3  Bulk Update replaces: afterwards the store is exactly the mapping   *)
(* sku -> n over the fields named qty-<sku> whose value parses to n > 0    *)
(* (0 for a value that does not parse); whatever else was stored is gone.  *)
(***************************************************************************)
BulkUpdateReplaces ==
  (resp.op = "update") =>
    LET form == resp.form
        cart == Cart(session)
    IN /\ \A i \in 1..Len(form) : \A sku \in {SubSeq(form[i][1], Len(QtyPrefix) + 1, Len(form[i][1]))} :
            (form[i][1] = QtyPrefix \o sku /\ ExpectedUpdateQty(form[i][2]) > 0)
              => (sku \in DOMAIN cart /\ cart[sku] = ExpectedUpdateQty(form[i][2]))
       /\ \A sku \in DOMAIN cart :
            \E i \in 1..Len(form) :
               form[i][1] = QtyPrefix \o sku /\ ExpectedUpdateQty(form[i][2]) > 0
       /\ Flashes(session) = Append(Flashes(resp.before), MsgUpdated)

\* Bulk Update with only qty-A1=2 has acted on {A1: 5, B2: 1}
BulkUpdateReplacesWitness ==
  /\ resp.op = "update"
  /\ resp.form = << <<QtyKey(A1), <<"2">> >> >>
  /\ Cart(resp.before) = (A1 :> 5) @@ (B2 :> 1)
  /\ Cart(session) = (A1 :> 2)

(***************************************************************************)
(* C4  Quantities stay positive: every entry of the stored list has a      *)
(* quantity that is an integer >= 1.                                       *)
(***************************************************************************)
QuantitiesPositive ==
  \A sku \in DOMAIN Cart(session) : Cart(session)[sku] \in Nat \ {0}

\* Add has stored an entry for a raw quantity of -1
QuantitiesPositiveWitness ==
  /\ resp.op = "add" /\ resp.qty = Field(<<"-", "1">>) /\ resp.outcome = "added"
  /\ DOMAIN Cart(resp.before) = {}
  /\ DOMAIN Cart(session) # {}

(***************************************************************************)
(* C5, as claimed: Remove(sku) deletes the entry of sku when the store has *)
(* one, leaving the others and queuing a message; otherwise it changes     *)
(* nothing and queues nothing.                                             *)
(***************************************************************************)
RemoveExactAsClaimed ==
  (resp.op = "remove" /\ resp.sku.present) =>
    LET sku == resp.sku.v
        old == Cart(resp.before)
    IN IF sku \in DOMAIN old
       THEN /\ Cart(session) = WithoutEntry(old, sku)
            /\ Flashes(session) = Append(Flashes(resp.before), MsgRemoved(sku))
       ELSE /\ Cart(session) = old
            /\ Flashes(session) = Flashes(resp.before)

(***************************************************************************)
(* C5, amended: Remove acts on the whitespace-trimmed sku (the empty text  *)
(* for an absent field): when the store has an entry for it, that entry is *)
(* deleted, the others are unchanged and a "Removed" message is queued;    *)
(* otherwise the store is unchanged and no message is queued.              *)
(***************************************************************************)
RemoveExact ==
  (resp.op = "remove") =>
    LET sku == Strip(FormGet(resp.sku, << >>))
        old == Cart(resp.before)
    IN IF sku \in DOMAIN old
       THEN /\ resp.removed
            /\ Cart(session) = WithoutEntry(old, sku)
            /\ Flashes(session) = Append(Flashes(resp.before), MsgRemoved(sku))
       ELSE /\ ~resp.removed
            /\ Cart(session) = old
            /\ Flashes(session) = Flashes(resp.before)

\* Remove has deleted A1 from a store that keeps another entry
RemoveExactWitness ==
  /\ resp.op = "remove" /\ resp.removed /\ resp.sku = Field(A1)
  /\ Cart(resp.before) = (A1 :> 5) @@ (B2 :> 1)
  /\ Cart(session) = (B2 :> 1)

(***************************************************************************)
(* C6  View: with the inventory readable (or nothing to look up) the view  *)
(* succeeds with one item per entry, carrying its sku and quantity; the    *)
(* name and aisle are those of a product with that sku, or the placeholder *)
(* "(not in inventory)" and "" when the inventory has none; the total is   *)
(* the sum of the quantities.                                              *)
(***************************************************************************)
ViewEnriches ==
  (resp.op = "view" /\ (file.exists \/ DOMAIN Cart(session) = {})) =>
    LET cart == Cart(session)
        df == load_products(file)
    IN /\ resp.ok
       /\ Cardinality(resp.items) = Cardinality(DOMAIN cart)
       /\ \A sku \in DOMAIN cart :
            \E it \in resp.items :
               /\ it.sku = sku /\ it.qty = cart[sku]
               /\ IF InLoadedInventory(file, sku)
                  THEN \E i \in 1..Len(df) :
                         df[i].sku = sku /\ it.name = df[i].name /\ it.aisle = df[i].aisle
                  ELSE it.name = NotInInventory /\ it.aisle = << >>
       /\ resp.total_items = SumValues(cart)

\* the view has shown a product of the inventory next to a placeholder
ViewEnrichesWitness ==
  /\ resp.op = "view" /\ resp.ok /\ resp.total_items > 2
  /\ \E it \in resp.items : it.name = NotInInventory /\ it.sku = ZZZ
  /\ \E it \in resp.items : it.name = Milk /\ it.sku = A1

(***************************************************************************)
(* C7  The loader never surfaces missing or garbled values: every loaded   *)
(* text field is trimmed, is "" for a column the source lacks and is not   *)
(* the missing-value marker for an empty cell; price and stock_qty are 0   *)
(* for an absent column or a non-numeric cell.                             *)
(***************************************************************************)
LoaderClean ==
  file.exists =>
    \A i \in 1..Len(file.rows) :
      LET src == file.rows[i]
          row == load_products(file)[i]
          NonNumeric(c) == c \notin file.cols \/ src[c].k = "nan"
                             \/ (src[c].k = "text" /\ ~SignedLiteral(src[c].s).ok)
      IN /\ \A c \in TextCols :
              /\ row[c] = Strip(row[c])
              /\ c \notin file.cols => row[c] = << >>
              /\ (c \in file.cols /\ src[c].k = "nan") => row[c] # NanText
         /\ NonNumeric("price") => row.price = 0
         /\ NonNumeric("stock_qty") => row.stock_qty = 0

(***************************************************************************)
(* C8  Search filter correctness: the listing never fails and holds        *)
(* exactly the rows for which (q is empty or occurs literally in the       *)
(* lower-cased name or sku) and (brand_q is empty or occurs literally in   *)
(* the lower-cased brand).                                                 *)
(***************************************************************************)
SearchLiteral ==
  (resp.op = "products" /\ file.exists) =>
    LET q == Lower(Strip(FormGet(resp.q, << >>)))
        brand_q == Lower(Strip(FormGet(resp.brand, << >>)))
        df == load_products(file)
        Matches(row) ==
          /\ q = << >> \/ Contains(Lower(row.name), q) \/ Contains(Lower(row.sku), q)
          /\ brand_q = << >> \/ Contains(Lower(row.brand), brand_q)
        want == SelectSeq(df, Matches)
    IN /\ resp.ok
       /\ [i \in 1..Len(resp.products) |->
             <<resp.products[i].sku, resp.products[i].name, resp.products[i].brand>>]
          = [i \in 1..Len(want) |-> <<want[i].sku, want[i].name, want[i].brand>>]

(***************************************************************************)
(* C9  Clear is unconditional: after Clear the stored list is the empty    *)
(* mapping and the "cleared" message is queued, whatever the store and the *)
(* inventory were.                                                         *)
(***************************************************************************)
ClearUnconditional ==
  (resp.op = "clear") =>
    /\ HasStore(session)
    /\ Cart(session) = EmptyDict
    /\ Flashes(session) = Append(Flashes(resp.before), MsgCleared)

\* Clear has acted on a non-empty store
ClearUnconditionalWitness ==
  /\ resp.op = "clear"
  /\ Cart(resp.before) = (A1 :> 5) @@ (B2 :> 1)
  /\ Cart(session) = EmptyDict

(***************************************************************************)
(* C10  Two mutating requests of one session are last-write-wins with no   *)
(* merge: once both have finished, the stored session is the one left by   *)
(* the request that wrote last, computed from the session that request     *)
(* read at its start (the other's change is lost when they overlapped);    *)
(* when they did not overlap, the second read what the first left and the  *)
(* result is that of running them one after the other.                     *)
(***************************************************************************)
RaceLastWriteWins ==
  (\A r \in {1, 2} : reqs[r].pc = "done") =>
    \A first \in {1, 2} :
      reqs[first].rank = 1 =>
        LET a == reqs[first]
            b == reqs[Other(first)]
            leftA == Serve(file, a.opened, a.req)
            leftB == Serve(file, b.opened, b.req)
        IN /\ b.rank = 2
           /\ session = IF leftB # b.opened THEN leftB
                        ELSE IF leftA # a.opened THEN leftA
                        ELSE a.opened
           /\ ~a.overlapped =>
                /\ ~b.overlapped
                /\ b.opened = leftA
                /\ session = Serve(file, Serve(file, a.opened, a.req), b.req)

\* overlapping Add("A1", 2) and Add("A1", 3) from the empty store have both
\* finished and the list holds A1: 2, not A1: 5
RaceLastWriteWinsWitness ==
  /\ \A r \in {1, 2} : reqs[r].pc = "done" /\ reqs[r].overlapped
  /\ \A r \in {1, 2} : Cart(reqs[r].opened) = EmptyDict
  /\ reqs[1].req = Request("add", Field(A1), Field(<<"2">>), << >>)
  /\ reqs[2].req = Request("add", Field(A1), Field(<<"3">>), << >>)
  /\ Cart(session) = (A1 :> 2)

====
